---------------------------- MODULE Spec2Model ----------------------------
(***************************************************************************)
(* Model of music_sheet_to_pianoroll.py.                                   *)
(*                                                                         *)
(* Two functions are modelled, each as a small state machine whose `pc`    *)
(* is the position inside the function body:                               *)
(*                                                                         *)
(*   music21_stream_to_piano_roll  (SpecFlatten)                           *)
(*       the loop over flat_stream.notes, one action per branch of the     *)
(*       isinstance test, and the return;                                  *)
(*   save_piano_roll_fig           (SpecRender)                            *)
(*       bounds, sort, the plotting loop, the axes, the legend, the save   *)
(*       with its except clause, and the close.                            *)
(*                                                                         *)
(* Times (offsets, quarter lengths, starts, ends) are whole beats; the     *)
(* x-axis limits are kept in tenths of a beat so that `end + 0.1` is an    *)
(* integer.                                                                *)
(***************************************************************************)
EXTENDS Integers, Sequences, FiniteSets, TLC

VARIABLES
    flat_stream,        \* music_stream.flatten(): sequence of elements, by offset
    idx,                \* position of the for loop in flat_stream.notes (1-based)
    notes,              \* the list the flattener builds and returns
    input_roll,         \* the piano_roll argument as it was at the call
    piano_roll,         \* the piano_roll list object (sorted in place)
    output_dir_exists,  \* whether <output_path>/piano_rolls exists
    show_legend,        \* the show_legend argument
    min_y, max_y,       \* vertical bounds
    legend,             \* the legend dict, as its items in insertion order
    draw_i,             \* position of the plotting loop (1-based)
    plotted,            \* the lines drawn by ax.plot, in drawing order
    xlim, ylim,         \* axis limits (xlim in tenths of a beat)
    yticks, yticklabels,
    handles,            \* the legend handles given to fig.legend
    file_written,       \* whether the png file exists after the call
    stdout,             \* lines printed
    fig_state,          \* "none" | "open" | "closed"
    exception,          \* "none" or the exception that left the function
    pc

vars == <<flat_stream, idx, notes, input_roll, piano_roll, output_dir_exists,
          show_legend, min_y, max_y, legend, draw_i, plotted, xlim, ylim,
          yticks, yticklabels, handles, file_written, stdout, fig_state,
          exception, pc>>

flattenVars == <<flat_stream, idx, notes>>

renderVars == <<input_roll, piano_roll, output_dir_exists, show_legend, min_y,
                max_y, legend, draw_i, plotted, xlim, ylim, yticks,
                yticklabels, handles, file_written, stdout, fig_state,
                exception>>

---------------------------------------------------------------------------
(* Module constants of the program *)

GRAPH_COLORS ==
    <<"red", "green", "blue", "yellow", "purple", "orange", "cyan", "magenta",
      "lime", "pink", "teal", "lavender">>

PITCH_CLASSES ==
    <<"C", "C#/Db", "D", "D#/Eb", "E", "F", "F#/Gb", "G", "G#/Ab", "A",
      "A#/Bb", "B">>

MISSING_DIR_MESSAGE ==
    "The directory does not exist for saving the piano roll figure."

---------------------------------------------------------------------------
(* Bounds and input domains *)

MaxNotes == 3

MaxElems == 2

MaxOffset == 1

\* MIDI pitches of the piano rolls: one just below an octave boundary and two
\* on octave boundaries, an octave apart.
Pitches == {59, 60, 72}

\* (start, end) pairs of the piano rolls, end >= start.
Spans == {<<0, 1>>, <<0, 2>>, <<1, 2>>}

Events == {<<p, s[1], s[2]>> : p \in Pitches, s \in Spans}

SeqsUpTo(S, n) == UNION {[1..k -> S] : k \in 0..n}

PianoRolls == SeqsUpTo(Events, MaxNotes)

\* Elements of a flattened stream.  A Note carries one pitch, a Chord its
\* pitches in order; a Rest and a Clef are not in `.notes`, an Unpitched is in
\* `.notes` but is neither a Note nor a Chord.
StreamPitches == {60, 64}

ChordPitches == {<<>>, <<60>>, <<60, 64>>, <<64, 60>>, <<60, 64, 67>>}

QuarterLengths == {1, 2}

Offsets == 0..MaxOffset

NoteElements ==
    [kind : {"Note"}, pitches : {<<p>> : p \in StreamPitches},
     offset : Offsets, quarterLength : QuarterLengths]

ChordElements ==
    [kind : {"Chord"}, pitches : ChordPitches,
     offset : Offsets, quarterLength : QuarterLengths]

OtherElements ==
    [kind : {"Rest", "Unpitched"}, pitches : {<<>>},
     offset : Offsets, quarterLength : {1}]
    \cup [kind : {"Clef"}, pitches : {<<>>},
          offset : Offsets, quarterLength : {0}]

Elements == NoteElements \cup ChordElements \cup OtherElements

\* A stream keeps its elements sorted by offset.
FlatStreams ==
    {s \in SeqsUpTo(Elements, MaxElems) :
        \A i \in 1..Len(s) - 1 : s[i].offset <= s[i + 1].offset}

---------------------------------------------------------------------------
(* Python built-ins used by the program *)

\* min(list) / max(list); both raise ValueError on an empty list, which the
\* callers model before using these.
Min(S) == CHOOSE x \in S : \A y \in S : x <= y

Max(S) == CHOOSE x \in S : \A y \in S : x >= y

\* list.index(x): position of the first occurrence (0-based).
IndexOf(s, x) == Min({i \in 1..Len(s) : s[i] = x}) - 1

\* range(start, stop, step) for step > 0.
Range(start, stop, step) ==
    LET n == IF stop > start THEN (stop - start + step - 1) \div step ELSE 0
    IN  [k \in 1..n |-> start + step * (k - 1)]

\* list.sort(key=...) and sorted(..., key=...), with keys[i] the key of
\* s[i].  The sort is stable: the element at position i goes behind every
\* element with a smaller key and behind the elements with an equal key that
\* stood before it.
StableSort(s, keys) ==
    LET rank(i) == Cardinality({j \in 1..Len(s) :
                        \/ keys[j] < keys[i]
                        \/ (keys[j] = keys[i] /\ j <= i)})
    IN  [k \in 1..Len(s) |-> s[CHOOSE i \in 1..Len(s) : rank(i) = k]]

\* dict[k] = v on a dict kept as its items in insertion order: a present key
\* keeps its place and takes the new value, a new key goes last.
DictSet(d, k, v) ==
    IF \E i \in 1..Len(d) : d[i][1] = k
    THEN [i \in 1..Len(d) |-> IF d[i][1] = k THEN <<k, v>> ELSE d[i]]
    ELSE Append(d, <<k, v>>)

---------------------------------------------------------------------------
(* save_piano_roll_fig *)

StartKey(n) == n[2]

\* Mutant: the sort key is the start time.
SortPianoRoll_ByStart(roll) ==
    StableSort(roll, [i \in 1..Len(roll) |-> StartKey(roll[i])])

EndKey(n) == n[3]

SortPianoRoll(roll) ==
    StableSort(roll, [i \in 1..Len(roll) |-> EndKey(roll[i])])

MinY(roll) ==
    LET min_pitch == Min({roll[i][1] : i \in 1..Len(roll)})
    IN  min_pitch - (min_pitch % 12)

\* Mutant: the upper bound is the octave boundary itself.
MaxY_Plus12(roll) ==
    LET max_pitch == Max({roll[i][1] : i \in 1..Len(roll)})
    IN  max_pitch + 12 - (max_pitch % 12)

MaxY(roll) ==
    LET max_pitch == Max({roll[i][1] : i \in 1..Len(roll)})
    IN  max_pitch + 13 - (max_pitch % 12)

PitchClass(pitch) == pitch % 12

\* Mutant: the palette is indexed by the octave.
ColorOf_ByOctave(pitch) == GRAPH_COLORS[((pitch \div 12) % 12) + 1]

ColorOf(pitch) == GRAPH_COLORS[PitchClass(pitch) + 1]

XLim(roll) ==
    IF Len(roll) > 0 THEN <<0, 10 * roll[Len(roll)][3] + 1>> ELSE <<0, 10>>

YTicks(lo, hi) == Range(lo, hi, 12)

\* Mutant: the octave number is not shifted by one.
TickLabel_NoOctaveShift(i) ==
    "C" \o ToString(i \div 12) \o "-(" \o ToString(i) \o ")"

TickLabel(i) == "C" \o ToString(i \div 12 - 1) \o "-(" \o ToString(i) \o ")"

YTickLabels(lo, hi) ==
    LET r == Range(lo, hi, 12) IN [k \in 1..Len(r) |-> TickLabel(r[k])]

LegendKey(item) == IndexOf(PITCH_CLASSES, item[1])

\* Mutant: the legend keeps its insertion order.
SortLegend_Unsorted(d) == d

SortLegend(d) == StableSort(d, [i \in 1..Len(d) |-> LegendKey(d[i])])

LegendHandles(d) ==
    [i \in 1..Len(d) |-> [color |-> d[i][2], label |-> d[i][1]]]

InitRender ==
    /\ input_roll \in PianoRolls
    /\ piano_roll = input_roll
    /\ output_dir_exists \in BOOLEAN
    /\ show_legend \in BOOLEAN
    /\ min_y = 0
    /\ max_y = 0
    /\ legend = <<>>
    /\ draw_i = 1
    /\ plotted = <<>>
    /\ xlim = <<>>
    /\ ylim = <<>>
    /\ yticks = <<>>
    /\ yticklabels = <<>>
    /\ handles = <<>>
    /\ file_written = FALSE
    /\ stdout = <<>>
    /\ fig_state = "none"
    /\ exception = "none"
    /\ flat_stream = <<>>
    /\ idx = 1
    /\ notes = <<>>
    /\ pc = "bounds"

\* Lines 26-33: min()/max() of the pitches (ValueError on an empty list),
\* the vertical bounds, the new figure and the empty legend.
ComputeBounds ==
    /\ pc = "bounds"
    /\ IF Len(piano_roll) = 0
       THEN /\ exception' = "ValueError"
            /\ pc' = "raised"
            /\ UNCHANGED <<min_y, max_y, fig_state, legend>>
       ELSE /\ min_y' = MinY(piano_roll)
            /\ max_y' = MaxY(piano_roll)
            /\ fig_state' = "open"
            /\ legend' = <<>>
            /\ pc' = "sort"
            /\ UNCHANGED exception
    /\ UNCHANGED <<input_roll, piano_roll, output_dir_exists, show_legend,
                   draw_i, plotted, xlim, ylim, yticks, yticklabels, handles,
                   file_written, stdout>>
    /\ UNCHANGED flattenVars

\* Line 35: piano_roll.sort(key=lambda n: n[2], reverse=False)
SortRoll ==
    /\ pc = "sort"
    /\ piano_roll' = SortPianoRoll(piano_roll)
    /\ draw_i' = 1
    /\ pc' = "plot"
    /\ UNCHANGED <<input_roll, output_dir_exists, show_legend, min_y, max_y,
                   legend, plotted, xlim, ylim, yticks, yticklabels, handles,
                   file_written, stdout, fig_state, exception>>
    /\ UNCHANGED flattenVars

\* Lines 37-41: one pass of the plotting loop.
PlotEvent ==
    /\ pc = "plot"
    /\ draw_i <= Len(piano_roll)
    /\ LET pitch == piano_roll[draw_i][1]
           start == piano_roll[draw_i][2]
           end   == piano_roll[draw_i][3]
       IN  /\ plotted' = Append(plotted, [x |-> <<start, end>>,
                                          y |-> <<pitch, pitch>>,
                                          color |-> ColorOf(pitch)])
           /\ legend' = DictSet(legend, PITCH_CLASSES[PitchClass(pitch) + 1],
                                GRAPH_COLORS[PitchClass(pitch) + 1])
    /\ draw_i' = draw_i + 1
    /\ UNCHANGED <<input_roll, piano_roll, output_dir_exists, show_legend,
                   min_y, max_y, xlim, ylim, yticks, yticklabels, handles,
                   file_written, stdout, fig_state, exception, pc>>
    /\ UNCHANGED flattenVars

\* Lines 43-53: the loop is over; axis limits, ticks and tick labels.
SetAxes ==
    /\ pc = "plot"
    /\ draw_i > Len(piano_roll)
    /\ xlim' = XLim(piano_roll)
    /\ ylim' = <<min_y, max_y>>
    /\ yticks' = YTicks(min_y, max_y)
    /\ yticklabels' = YTickLabels(min_y, max_y)
    /\ pc' = "legend"
    /\ UNCHANGED <<input_roll, piano_roll, output_dir_exists, show_legend,
                   min_y, max_y, legend, draw_i, plotted, handles,
                   file_written, stdout, fig_state, exception>>
    /\ UNCHANGED flattenVars

\* Lines 56-62: the legend, when asked for.
BuildLegend ==
    /\ pc = "legend"
    /\ IF show_legend
       THEN /\ legend' = SortLegend(legend)
            /\ handles' = LegendHandles(legend')
       ELSE UNCHANGED <<legend, handles>>
    /\ pc' = "save"
    /\ UNCHANGED <<input_roll, piano_roll, output_dir_exists, show_legend,
                   min_y, max_y, draw_i, plotted, xlim, ylim, yticks,
                   yticklabels, file_written, stdout, fig_state, exception>>
    /\ UNCHANGED flattenVars

\* Mutant: the FileNotFoundError is not caught.
SaveFig_Uncaught ==
    /\ pc = "save"
    /\ IF output_dir_exists
       THEN /\ file_written' = TRUE
            /\ pc' = "close"
            /\ UNCHANGED exception
       ELSE /\ exception' = "FileNotFoundError"
            /\ pc' = "raised"
            /\ UNCHANGED file_written
    /\ UNCHANGED <<input_roll, piano_roll, output_dir_exists, show_legend,
                   min_y, max_y, legend, draw_i, plotted, xlim, ylim, yticks,
                   yticklabels, handles, stdout, fig_state>>
    /\ UNCHANGED flattenVars

\* Lines 63-67: fig.savefig raises FileNotFoundError when the directory is
\* missing; the except clause prints and goes on.
SaveFig ==
    /\ pc = "save"
    /\ IF output_dir_exists
       THEN /\ file_written' = TRUE
            /\ UNCHANGED stdout
       ELSE /\ stdout' = Append(stdout, MISSING_DIR_MESSAGE)
            /\ UNCHANGED file_written
    /\ pc' = "close"
    /\ UNCHANGED <<input_roll, piano_roll, output_dir_exists, show_legend,
                   min_y, max_y, legend, draw_i, plotted, xlim, ylim, yticks,
                   yticklabels, handles, fig_state, exception>>
    /\ UNCHANGED flattenVars

\* Line 68: plt.close(fig), then the function returns None.
CloseFig ==
    /\ pc = "close"
    /\ fig_state' = "closed"
    /\ pc' = "done"
    /\ UNCHANGED <<input_roll, piano_roll, output_dir_exists, show_legend,
                   min_y, max_y, legend, draw_i, plotted, xlim, ylim, yticks,
                   yticklabels, handles, file_written, stdout, exception>>
    /\ UNCHANGED flattenVars

NextRender ==
    \/ ComputeBounds
    \/ SortRoll
    \/ PlotEvent
    \/ SetAxes
    \/ BuildLegend
    \/ SaveFig
    \/ CloseFig

SpecRender == InitRender /\ [][NextRender]_vars

---------------------------------------------------------------------------
(* music21_stream_to_piano_roll *)

\* Stream.notes: the elements that are notes, chords or other non-rest
\* general notes, in stream order.
IsNotRest(e) == e.kind \in {"Note", "Chord", "Unpitched"}

NotesIter(s) == SelectSeq(s, IsNotRest)

\* Mutant: the end is the duration, the start is not added.
NoteTuple_DurationAsEnd(element) ==
    <<element.pitches[1], element.offset, element.quarterLength>>

\* Lines 84-86: the tuple of a single note.
NoteTuple(element) ==
    LET absolute_start == element.offset
        absolute_end   == absolute_start + element.quarterLength
    IN  <<element.pitches[1], absolute_start, absolute_end>>

\* Mutant: every tuple of a chord takes the chord's first pitch.
ChordTuples_FirstPitchOnly(element) ==
    [k \in 1..Len(element.pitches) |->
        <<element.pitches[1], element.offset,
          element.offset + element.quarterLength>>]

\* Lines 88-91: the tuples of a chord, one per pitch, in pitch order.
ChordTuples(element) ==
    LET absolute_start == element.offset
        absolute_end   == absolute_start + element.quarterLength
    IN  [k \in 1..Len(element.pitches) |->
            <<element.pitches[k], absolute_start, absolute_end>>]

InitFlatten ==
    /\ flat_stream \in FlatStreams
    /\ idx = 1
    /\ notes = <<>>
    /\ input_roll = <<>>
    /\ piano_roll = <<>>
    /\ output_dir_exists = FALSE
    /\ show_legend = FALSE
    /\ min_y = 0
    /\ max_y = 0
    /\ legend = <<>>
    /\ draw_i = 1
    /\ plotted = <<>>
    /\ xlim = <<>>
    /\ ylim = <<>>
    /\ yticks = <<>>
    /\ yticklabels = <<>>
    /\ handles = <<>>
    /\ file_written = FALSE
    /\ stdout = <<>>
    /\ fig_state = "none"
    /\ exception = "none"
    /\ pc = "flatten"

\* Lines 82-86: the loop meets a note.Note.
VisitNote ==
    /\ pc = "flatten"
    /\ idx <= Len(NotesIter(flat_stream))
    /\ NotesIter(flat_stream)[idx].kind = "Note"
    /\ notes' = Append(notes, NoteTuple(NotesIter(flat_stream)[idx]))
    /\ idx' = idx + 1
    /\ UNCHANGED <<flat_stream, pc>>
    /\ UNCHANGED renderVars

\* Lines 82-83, 87-91: the loop meets a chord.Chord.
VisitChord ==
    /\ pc = "flatten"
    /\ idx <= Len(NotesIter(flat_stream))
    /\ NotesIter(flat_stream)[idx].kind = "Chord"
    /\ notes' = notes \o ChordTuples(NotesIter(flat_stream)[idx])
    /\ idx' = idx + 1
    /\ UNCHANGED <<flat_stream, pc>>
    /\ UNCHANGED renderVars

\* Mutant: an element that is neither a note nor a chord gets a tuple too.
VisitOther_EmitsTuple ==
    /\ pc = "flatten"
    /\ idx <= Len(NotesIter(flat_stream))
    /\ NotesIter(flat_stream)[idx].kind \notin {"Note", "Chord"}
    /\ notes' = Append(notes, <<0, NotesIter(flat_stream)[idx].offset,
                                NotesIter(flat_stream)[idx].offset
                                    + NotesIter(flat_stream)[idx].quarterLength>>)
    /\ idx' = idx + 1
    /\ UNCHANGED <<flat_stream, pc>>
    /\ UNCHANGED renderVars

\* Lines 82-83, 87: the loop meets an element that is neither.
VisitOther ==
    /\ pc = "flatten"
    /\ idx <= Len(NotesIter(flat_stream))
    /\ NotesIter(flat_stream)[idx].kind \notin {"Note", "Chord"}
    /\ idx' = idx + 1
    /\ UNCHANGED <<flat_stream, notes, pc>>
    /\ UNCHANGED renderVars

\* Line 93: the loop is over, return notes.
ReturnNotes ==
    /\ pc = "flatten"
    /\ idx > Len(NotesIter(flat_stream))
    /\ pc' = "returned"
    /\ UNCHANGED <<flat_stream, idx, notes>>
    /\ UNCHANGED renderVars

NextFlatten ==
    \/ VisitNote
    \/ VisitChord
    \/ VisitOther
    \/ ReturnNotes

SpecFlatten == InitFlatten /\ [][NextFlatten]_vars

---------------------------------------------------------------------------
(* Flattener properties, checked under SpecFlatten *)

\* Number of tuples an element stands for: a note one, a chord one per pitch,
\* anything else none.
Sounding(e) ==
    IF e.kind = "Note" THEN 1
    ELSE IF e.kind = "Chord" THEN Len(e.pitches)
    ELSE 0

RECURSIVE TuplesBefore(_, _)
TuplesBefore(s, i) ==
    IF i <= 1 THEN 0 ELSE TuplesBefore(s, i - 1) + Sounding(s[i - 1])

NoteIndices == {i \in 1..Len(flat_stream) : flat_stream[i].kind = "Note"}

ChordIndices == {i \in 1..Len(flat_stream) : flat_stream[i].kind = "Chord"}

\* C3: a score whose only note-or-chord element is one single note of pitch
\* p, duration d, at offset t yields exactly the one tuple (p, t, t + d).
C3_SingleNoteOneTuple ==
    (pc = "returned" /\ Cardinality(NoteIndices) = 1 /\ ChordIndices = {})
        => \E i \in NoteIndices :
              notes = << <<flat_stream[i].pitches[1],
                           flat_stream[i].offset,
                           flat_stream[i].offset + flat_stream[i].quarterLength>> >>

C3_Witness ==
    /\ pc = "returned"
    /\ Len(flat_stream) = 2
    /\ Cardinality(NoteIndices) = 1
    /\ ChordIndices = {}
    /\ \E i \in NoteIndices : flat_stream[i].offset = 1
    /\ Len(notes) = 1

\* C4: when the loop visits a chord of k pitches at offset t with duration d,
\* it appends exactly k tuples to what it had, the m-th being
\* (m-th pitch of the chord, t, t + d).
C4_ChordEmitsItsPitches ==
    [][(/\ pc = "flatten"
        /\ idx <= Len(NotesIter(flat_stream))
        /\ NotesIter(flat_stream)[idx].kind = "Chord")
       => LET e == NotesIter(flat_stream)[idx]
              k == Len(e.pitches)
          IN  /\ Len(notes') = Len(notes) + k
              /\ SubSeq(notes', 1, Len(notes)) = notes
              /\ \A m \in 1..k :
                    notes'[Len(notes) + m] =
                        <<e.pitches[m], e.offset, e.offset + e.quarterLength>>
      ]_vars

C4_Witness ==
    /\ pc = "returned"
    /\ \E i \in ChordIndices :
          /\ flat_stream[i].pitches = <<64, 60>>
          /\ flat_stream[i].offset = 1
          /\ i = 2
          /\ flat_stream[1].kind = "Note"
    /\ Len(notes) = 3

\* C5: the returned list has one tuple per single note plus one per chord
\* pitch and nothing for any other element, and the tuples stand in the
\* order of their elements in the flattened stream.
C5_OnlyNotesAndChordsInOrder ==
    pc = "returned" =>
        /\ Len(notes) = TuplesBefore(flat_stream, Len(flat_stream) + 1)
        /\ \A i \in 1..Len(flat_stream) :
              LET e == flat_stream[i]
                  b == TuplesBefore(flat_stream, i)
              IN  \A m \in 1..Sounding(e) :
                     /\ b + m <= Len(notes)
                     /\ notes[b + m] =
                           <<e.pitches[m], e.offset, e.offset + e.quarterLength>>

C5_Witness ==
    /\ pc = "returned"
    /\ Len(flat_stream) = 2
    /\ flat_stream[1].kind \in {"Rest", "Clef", "Unpitched"}
    /\ flat_stream[2].kind = "Chord"
    /\ Len(notes) = 2

---------------------------------------------------------------------------
(* Renderer properties, checked under SpecRender *)

InputPitches == {input_roll[i][1] : i \in 1..Len(input_roll)}

Returned == pc \in {"done", "raised"}

\* C1: with an empty piano roll the call completes without an exception and
\* the x-axis bounds are (0, 1), i.e. (0, 10) in tenths.
C1_EmptyRollCompletes ==
    (input_roll = <<>> /\ Returned)
        => (pc = "done" /\ exception = "none" /\ xlim = <<0, 10>>)

AfterBounds == pc \in {"sort", "plot", "legend", "save", "close", "done"}

\* C2 as stated: both vertical bounds are multiples of 12, min_y the minimum
\* pitch rounded down and max_y the maximum pitch rounded up.
C2_BothBoundsOctaveAligned ==
    AfterBounds =>
        /\ min_y % 12 = 0
        /\ min_y <= Min(InputPitches) /\ Min(InputPitches) < min_y + 12
        /\ max_y % 12 = 0
        /\ max_y - 12 < Max(InputPitches) /\ Max(InputPitches) <= max_y

\* C2 amended: min_y is the minimum pitch rounded down to a multiple of 12;
\* max_y is one more than the first multiple of 12 strictly above the maximum
\* pitch; every pitch lies in [min_y, max_y).
C2_BoundsContainPitches ==
    AfterBounds =>
        /\ min_y % 12 = 0
        /\ min_y <= Min(InputPitches) /\ Min(InputPitches) < min_y + 12
        /\ (max_y - 1) % 12 = 0
        /\ Max(InputPitches) < max_y - 1 /\ max_y - 1 <= Max(InputPitches) + 12
        /\ \A p \in InputPitches : min_y <= p /\ p < max_y

C2_Witness ==
    /\ AfterBounds
    /\ Min(InputPitches) = 60
    /\ Max(InputPitches) = 72
    /\ min_y = 60
    /\ max_y = 85

AfterSort == pc \in {"plot", "legend", "save", "close", "done"}

AfterPlot == pc \in {"legend", "save", "close", "done"}

EndTimes == {input_roll[i][3] : i \in 1..Len(input_roll)}

\* C6: once sorted, the list holds the input events by ascending end time,
\* events of equal end time in their input order, and the lines are drawn in
\* the order of the sorted list.
C6_StableSortByEnd ==
    AfterSort =>
        /\ Len(piano_roll) = Len(input_roll)
        /\ \A k \in 1..Len(piano_roll) - 1 :
              piano_roll[k][3] <= piano_roll[k + 1][3]
        /\ \A v \in EndTimes :
              SelectSeq(piano_roll, LAMBDA n : n[3] = v) =
              SelectSeq(input_roll, LAMBDA n : n[3] = v)
        /\ Len(plotted) = IF AfterPlot THEN Len(piano_roll) ELSE draw_i - 1
        /\ \A k \in 1..Len(plotted) :
              /\ plotted[k].y = <<piano_roll[k][1], piano_roll[k][1]>>
              /\ plotted[k].x = <<piano_roll[k][2], piano_roll[k][3]>>

C6_Witness ==
    /\ pc = "done"
    /\ Len(input_roll) = 3
    /\ input_roll[1][3] > input_roll[2][3]
    /\ input_roll[2][3] = input_roll[3][3]
    /\ input_roll[2][1] # input_roll[3][1]
    /\ piano_roll = <<input_roll[2], input_roll[3], input_roll[1]>>

\* C7: every line is drawn in the palette colour of its pitch modulo 12, the
\* twelve palette colours differ from one another, and so two drawn lines
\* have the same colour exactly when their pitches are equal modulo 12.
C7_ColorByPitchClass ==
    /\ Len(GRAPH_COLORS) = 12
    /\ \A c, d \in 1..12 : c # d => GRAPH_COLORS[c] # GRAPH_COLORS[d]
    /\ \A i \in 1..Len(plotted) :
          plotted[i].color = GRAPH_COLORS[(plotted[i].y[1] % 12) + 1]
    /\ \A i, j \in 1..Len(plotted) :
          (plotted[i].y[1] % 12 = plotted[j].y[1] % 12)
              <=> (plotted[i].color = plotted[j].color)

C7_Witness ==
    /\ pc = "done"
    /\ \E i, j, k \in 1..Len(plotted) :
          /\ plotted[i].y[1] = 60
          /\ plotted[j].y[1] = 72
          /\ plotted[k].y[1] = 59
          /\ plotted[i].color = plotted[j].color
          /\ plotted[i].color # plotted[k].color

\* C8: with a non-empty piano roll and no output directory the call always
\* goes to its end, no exception leaves it, and at the end the message has
\* been printed, no file exists and the figure is closed.
C8_MissingDirectoryIsSwallowed ==
    (input_roll # <<>> /\ ~output_dir_exists) =>
        /\ exception = "none"
        /\ pc # "raised"
        /\ (pc # "done" => ENABLED NextRender)
        /\ ~file_written
        /\ pc = "done" =>
              /\ stdout = <<MISSING_DIR_MESSAGE>>
              /\ fig_state = "closed"

C8_Witness ==
    /\ pc = "done"
    /\ input_roll # <<>>
    /\ ~output_dir_exists
    /\ stdout # <<>>
    /\ ~file_written

AfterLegend == pc \in {"save", "close", "done"}

ClassesPresent == {p % 12 : p \in InputPitches}

\* The pitch class (0..11) a legend label names.
ClassNamed(label) == CHOOSE c \in 0..11 : PITCH_CLASSES[c + 1] = label

\* C9: with show_legend the legend has one entry per pitch class present and
\* no other, each with the colour its lines were drawn in, in the order of
\* the pitch-class table.
C9_LegendPerClassInTableOrder ==
    (AfterLegend /\ show_legend) =>
        /\ Len(handles) = Cardinality(ClassesPresent)
        /\ {handles[i].label : i \in 1..Len(handles)} =
              {PITCH_CLASSES[c + 1] : c \in ClassesPresent}
        /\ \A i \in 1..Len(handles) :
              /\ handles[i].color = GRAPH_COLORS[ClassNamed(handles[i].label) + 1]
              /\ \A k \in 1..Len(plotted) :
                    plotted[k].y[1] % 12 = ClassNamed(handles[i].label)
                        => plotted[k].color = handles[i].color
        /\ \A i, j \in 1..Len(handles) :
              i < j => ClassNamed(handles[i].label) < ClassNamed(handles[j].label)

C9_Witness ==
    /\ pc = "done"
    /\ show_legend
    /\ Len(plotted) = 3
    /\ plotted[1].y[1] = 59
    /\ plotted[2].y[1] = 72
    /\ plotted[3].y[1] = 60
    /\ handles = <<[color |-> "red", label |-> "C"],
                   [color |-> "lavender", label |-> "B"]>>

\* The labels of the octave ticks the bounded pitches can produce, written out.
OctaveLabels ==
    (36 :> "C2-(36)") @@ (48 :> "C3-(48)") @@ (60 :> "C4-(60)")
        @@ (72 :> "C5-(72)") @@ (84 :> "C6-(84)") @@ (96 :> "C7-(96)")

\* C10: the y ticks are the multiples of 12 in [min_y, max_y) in ascending
\* order, each with its label C{octave}-({midi}) (60 is C4-(60)), and every
\* drawn pitch lies between the lowest and the highest tick.
C10_OctaveTicksAndLabels ==
    AfterPlot =>
        /\ {yticks[k] : k \in 1..Len(yticks)} =
              {i \in min_y..(max_y - 1) : i % 12 = 0}
        /\ \A k \in 1..Len(yticks) - 1 : yticks[k] < yticks[k + 1]
        /\ Len(yticklabels) = Len(yticks)
        /\ \A k \in 1..Len(yticks) :
              /\ yticks[k] \in DOMAIN OctaveLabels
              /\ yticklabels[k] = OctaveLabels[yticks[k]]
        /\ Len(yticks) >= 1
        /\ \A k \in 1..Len(plotted) :
              /\ yticks[1] <= plotted[k].y[1]
              /\ plotted[k].y[1] <= yticks[Len(yticks)]

C10_Witness ==
    /\ pc = "done"
    /\ yticks = <<60, 72, 84>>
    /\ yticklabels = <<"C4-(60)", "C5-(72)", "C6-(84)">>
    /\ \E k \in 1..Len(plotted) : plotted[k].y[1] = 72


===========================================================================
